---------------------------- MODULE Spec2Model ----------------------------
(***************************************************************************)
(* Model of convert.py (wunderlist-to-org): the OrgWriter text emitter and  *)
(* the mapping of a Wunderlist export (lists, tasks, notes, comments,       *)
(* files) onto it.                                                          *)
(*                                                                          *)
(* Text is a sequence of pieces.  A piece is a one-character string, or a   *)
(* literal the code emits as a unit (":END:", a person link, a formatted    *)
(* timestamp).  The line terminator "\n" is always a piece of its own.      *)
(* JSON values are records: None is [none |-> TRUE], a string s is          *)
(* [str |-> s], an object is the record of its keys.                        *)
(***************************************************************************)
EXTENDS Integers, Sequences, FiniteSets, TLC

VARIABLES
    pc,        \* position of the running call
    writer,    \* the OrgWriter: [level, org_string]
    cm,        \* the context managers entered and not yet left, innermost last
    task,      \* the task being converted: the fields read so far
    entry,     \* the writer's level and text length when the task conversion began
    budget,    \* input elements the document may still hold
    arg,       \* argument of a directly called function
    ret        \* its return value

vars == <<pc, writer, cm, task, entry, budget, arg, ret>>

----------------------------------------------------------------------------
(* Bounds of the model.                                                     *)

\* Lists, tasks, present optional fields, reminders, notes, comments and
\* files of one input document, counted together.
MaxSize == 4

\* Length of the titles handed to convert_wunderlist_title.
MaxTitleLen == 6

\* Length of the texts handed to emit_content.
MaxTextLen == 4

----------------------------------------------------------------------------
\* OrgWriter() starts at level 0 (the default of __init__).
StartLevel == 0

----------------------------------------------------------------------------
(* Values.                                                                  *)

None == [none |-> TRUE]

Str(s) == [str |-> s]

IsNone(v) == "none" \in DOMAIN v

\* Python truth of a JSON scalar or object: None and "" are false.
Truthy(v) == /\ ~IsNone(v)
             /\ ("str" \in DOMAIN v => v.str # "")

NL == "\n"

WhiteSpace == {" ", NL}

\* All sequences over S of length at most n.
SeqsUpTo(S, n) == UNION {[1..k -> S] : k \in 0..n}

\* str.upper, on the strings the program upper-cases.
Upper(s) ==
    CASE s = "a" -> "A"
      [] s = "b" -> "B"
      [] s = "f" -> "F"
      [] s = "g" -> "G"
      [] s = "t" -> "T"
      [] s = "next" -> "NEXT"
      [] s = "done" -> "DONE"
      [] s = "todo" -> "TODO"
      [] s = "deadline" -> "DEADLINE"
      [] s = "properties" -> "PROPERTIES"
      [] s = "created-by" -> "CREATED-BY"
      [] s = "created" -> "CREATED"
      [] s = "completed" -> "COMPLETED"
      [] s = "reminders" -> "REMINDERS"
      [] s = "assignee" -> "ASSIGNEE"
      [] OTHER -> s

UpperText(text) == [i \in 1..Len(text) |-> Upper(text[i])]

----------------------------------------------------------------------------
(* sanitize_text                                                            *)

\* Length of the run of "*" at the start of text: what ^\*+ matches.
StarRun(text) ==
    LET stops == {i \in 1..Len(text) : text[i] # "*"}
    IN  IF stops = {} THEN Len(text)
        ELSE (CHOOSE i \in stops : \A j \in stops : i <= j) - 1

\* star_re.sub("+", text): the leading run of "*" replaced by one "+".
StarReSub(text) ==
    IF StarRun(text) = 0 THEN text
    ELSE <<"+">> \o SubSeq(text, StarRun(text) + 1, Len(text))

\* The substitution is computed and its result dropped; text is returned.
sanitize_text(text) ==
    LET substituted == StarReSub(text)
    IN  text

----------------------------------------------------------------------------
(* convert_wunderlist_title                                                 *)

\* First index >= pos holding "#", or 0.
NextHash(title, pos) ==
    LET hs == {i \in pos..Len(title) : title[i] = "#"}
    IN  IF hs = {} THEN 0 ELSE CHOOSE i \in hs : \A j \in hs : i <= j

\* Where the lazy .*? stops: the first whitespace after i, or the end.
TokenEnd(title, i) ==
    LET ws == {j \in (i + 1)..Len(title) : title[j] \in WhiteSpace}
    IN  IF ws = {} THEN Len(title) + 1 ELSE CHOOSE j \in ws : \A k \in ws : j <= k

\* Where the greedy \s+ stops: the first non-whitespace from j on, or the end.
SpaceEnd(title, j) ==
    LET ns == {e \in j..Len(title) : title[e] \notin WhiteSpace}
    IN  IF ns = {} THEN Len(title) + 1 ELSE CHOOSE e \in ns : \A k \in ns : e <= k

\* The non-overlapping matches of #(.*?(?:\s+|$)) from pos on, left to right.
\* start is the index of "#", stop the index after the match; group 1 is
\* title[start + 1 .. stop - 1].
RECURSIVE TagReMatches(_, _)
TagReMatches(title, pos) ==
    LET i == NextHash(title, pos)
    IN  IF i = 0 THEN <<>>
        ELSE LET e == SpaceEnd(title, TokenEnd(title, i))
             IN  <<[start |-> i, stop |-> e]>> \o TagReMatches(title, e)

Group1(title, m) == SubSeq(title, m.start + 1, m.stop - 1)

\* tag_re.findall(title): group 1 of every match.
TagReFindall(title) ==
    LET ms == TagReMatches(title, 1)
    IN  [k \in 1..Len(ms) |-> Group1(title, ms[k])]

\* A substitution that drops the whole match, token and whitespace too.
TagReSubDropMatch(title) ==
    LET ms == TagReMatches(title, 1)
        inMatch(i) == \E k \in 1..Len(ms) : ms[k].start <= i /\ i < ms[k].stop
        keep == {i \in 1..Len(title) : ~inMatch(i)}
        RECURSIVE Pick(_)
        Pick(i) == IF i > Len(title) THEN <<>>
                   ELSE (IF i \in keep THEN <<title[i]>> ELSE <<>>) \o Pick(i + 1)
    IN  Pick(1)

\* tag_re.sub(r"\1", title): every match replaced by its group 1.
TagReSub(title) ==
    LET ms == TagReMatches(title, 1)
        RECURSIVE Build(_, _)
        Build(pos, k) ==
            IF k > Len(ms) THEN SubSeq(title, pos, Len(title))
            ELSE SubSeq(title, pos, ms[k].start - 1)
                     \o Group1(title, ms[k])
                     \o Build(ms[k].stop, k + 1)
    IN  Build(1, 1)

\* tag[:-1]
DropLast(s) == SubSeq(s, 1, Len(s) - 1)

\* Returns <<title, tags>>.
convert_wunderlist_title(title) ==
    LET found == TagReFindall(title)
        tags == [k \in 1..Len(found) |-> DropLast(found[k])]
    IN  <<TagReSub(title), tags>>

----------------------------------------------------------------------------
(* Dates                                                                    *)

\* datetime.strptime(date_str, fmt) on the date strings of the model: the
\* datetime parsed, or None where Python raises ValueError.
strptime(date_str, fmt) ==
    CASE date_str = "2020-03-01T10:00:00.000Z" /\ fmt = "%Y-%m-%dT%H:%M:%S.%fZ"
            -> [datetime |-> "2020-03-01T10:00:00"]
      [] date_str = "2020-03-02T08:30:00Z" /\ fmt = "%Y-%m-%dT%H:%M:%SZ"
            -> [datetime |-> "2020-03-02T08:30:00"]
      [] date_str = "2020-03-03T23:59:00" /\ fmt = "%Y-%m-%dT%H:%M:%S"
            -> [datetime |-> "2020-03-03T23:59:00"]
      [] OTHER -> None

parse_wunderlist_date(date_str) ==
    IF ~Truthy(date_str) THEN None
    ELSE LET first == strptime(date_str.str, "%Y-%m-%dT%H:%M:%S.%fZ")
             second == strptime(date_str.str, "%Y-%m-%dT%H:%M:%SZ")
             third == strptime(date_str.str, "%Y-%m-%dT%H:%M:%S")
         IN  IF ~IsNone(first) THEN first
             ELSE IF ~IsNone(second) THEN second
             ELSE IF ~IsNone(third) THEN third
             ELSE None

\* date.strftime("%Y-%m-%d %a %H:%M")
format_org_date(date) ==
    CASE date.datetime = "2020-03-01T10:00:00" -> "2020-03-01 Sun 10:00"
      [] date.datetime = "2020-03-02T08:30:00" -> "2020-03-02 Mon 08:30"
      [] date.datetime = "2020-03-03T23:59:00" -> "2020-03-03 Tue 23:59"

----------------------------------------------------------------------------
(* OrgWriter                                                                *)

\* OrgWriter.__init__
OrgWriter(level) == [level |-> level, org_string |-> <<>>]

emit(w, message, newline) ==
    [w EXCEPT !.org_string = @ \o message \o (IF newline THEN <<NL>> ELSE <<>>)]

\* set_level raises RuntimeError on a negative level.
set_level_raises(level) == level < 0

set_level(w, level) == [w EXCEPT !.level = level]

\* new_level up to its yield: the level the region runs at.  The program
\* passes no level; 0 stands for that default (None and 0 are both false).
new_level_target(w, level) == IF level = 0 THEN w.level + 1 ELSE level

\* An exit that leaves the level of the region in place.
new_level_exit_keep(w, old_level, exc) == w

\* new_level after its yield.  The generator has no try/finally: when the
\* body raised (exc), the exception is thrown in at the yield and the
\* generator ends there.
new_level_exit(w, old_level, exc) ==
    IF exc THEN w ELSE set_level(w, old_level)

\* drawer up to its yield.
drawer_enter(w, name) == emit(w, <<":" \o Upper(name) \o ":">>, TRUE)

\* drawer after its yield; as for new_level, skipped when the body raised.
drawer_exit(w, exc) ==
    IF exc THEN w ELSE emit(w, <<":END:">>, TRUE)

Stars(n) == [i \in 1..n |-> "*"]

RECURSIVE Join(_, _)
Join(sep, texts) ==
    IF texts = <<>> THEN <<>>
    ELSE IF Len(texts) = 1 THEN texts[1]
    ELSE texts[1] \o <<sep>> \o Join(sep, Tail(texts))

emit_node_title(w, title, todo_state, tags) ==
    LET stars == Stars(w.level + 1)
        todo == IF Truthy(todo_state) THEN <<" ", Upper(todo_state.str)>> ELSE <<>>
        upper == [i \in 1..Len(tags) |-> UpperText(tags[i])]
        cluster == IF tags # <<>> THEN <<" ", ":">> \o Join(":", upper) \o <<":">>
                   ELSE <<>>
    IN  emit(w, stars \o todo \o <<" ">> \o title \o cluster, TRUE)

\* An emission in inactive style whatever the caller asks for.
emit_timestamp_inactive(w, date, timestamp_type, active, newline) ==
    IF IsNone(date) THEN w
    ELSE LET label == IF Truthy(timestamp_type)
                      THEN <<Upper(timestamp_type.str) \o ": ">> ELSE <<>>
         IN  emit(w, label \o <<"[", format_org_date(date), "]">>, newline)

emit_timestamp(w, date, timestamp_type, active, newline) ==
    IF IsNone(date) THEN w
    ELSE LET label == IF Truthy(timestamp_type)
                      THEN <<Upper(timestamp_type.str) \o ": ">> ELSE <<>>
             formated_date == format_org_date(date)
             stamp == IF active THEN <<"<", formated_date, ">">>
                      ELSE <<"[", formated_date, "]">>
         IN  emit(w, label \o stamp, newline)

\* content is always None where the program calls emit_node.
emit_node(w, title, tags, timestamp, timestamp_type, todo_state) ==
    emit_timestamp(emit_node_title(w, title, todo_state, tags),
                   timestamp, timestamp_type, TRUE, TRUE)

emit_content(w, content) ==
    emit(emit(w, sanitize_text(content), TRUE), <<>>, TRUE)

emit_list_item(w, text) == emit(w, <<" - ">> \o text, TRUE)

PropertyLabel(name) == ":" \o Upper(name) \o ": "

\* A property whose value does not end its line.
emit_property_open(w, name, value) ==
    emit(w, <<PropertyLabel(name)>> \o (IF Truthy(value) THEN <<value.str>> ELSE <<>>),
         FALSE)

\* value is None or a person link.
emit_property(w, name, value) ==
    LET labelled == emit(w, <<PropertyLabel(name)>>, FALSE)
    IN  IF Truthy(value) THEN emit(labelled, <<value.str>>, TRUE) ELSE labelled

----------------------------------------------------------------------------
(* The mapping                                                              *)

\* person['email'] or person['name'] raises KeyError.
person_raises(person) == ~({"email", "name"} \subseteq DOMAIN person)

convert_wunderlist_person(person) ==
    Str("[[mailto:" \o person.email \o "][" \o person.name \o "]]")

comment_text(comment) ==
    <<convert_wunderlist_person(comment.author).str, ": ">> \o comment.text

convert_wunderlist_comment(w, comment) ==
    emit_list_item(w, comment_text(comment))

convert_wunderlist_file(w, w_file) ==
    emit_list_item(w, <<"[[file:" \o w_file.filePath \o "][" \o w_file.fileName \o "]]">>)

\* The reminders loop, lines 236-245: a space before every reminder but the
\* first, then the reminder's timestamp without a line end.
RECURSIVE reminders_loop(_, _, _)
reminders_loop(w, reminders, first) ==
    IF reminders = <<>> THEN w
    ELSE LET spaced == IF first THEN w ELSE emit(w, <<" ">>, FALSE)
             stamped == emit_timestamp(spaced,
                            parse_wunderlist_date(Head(reminders).remindAt),
                            None, TRUE, FALSE)
         IN  reminders_loop(stamped, Tail(reminders), FALSE)

RECURSIVE notes_loop(_, _)
notes_loop(w, notes) ==
    IF notes = <<>> THEN w
    ELSE notes_loop(emit_content(w, Head(notes).content), Tail(notes))

\* The comments loop: [writer, exc], exc when a comment's author raised.
RECURSIVE comments_loop(_, _)
comments_loop(w, comments) ==
    IF comments = <<>> THEN [writer |-> w, exc |-> FALSE]
    ELSE IF person_raises(Head(comments).author) THEN [writer |-> w, exc |-> TRUE]
    ELSE comments_loop(convert_wunderlist_comment(w, Head(comments)), Tail(comments))

RECURSIVE files_loop(_, _)
files_loop(w, files) ==
    IF files = <<>> THEN w
    ELSE files_loop(convert_wunderlist_file(w, Head(files)), Tail(files))

todo_state_of(starred, completed) ==
    IF starred THEN Str("next") ELSE IF completed THEN Str("done") ELSE Str("todo")

----------------------------------------------------------------------------
(* The inputs the model draws.                                              *)

Titles == {<<"t">>, <<"#", "g", " ", "t">>}

Folders == {[title |-> <<"f">>]}

DateStrs == {Str("2020-03-01T10:00:00.000Z"), Str("2020-03-02T08:30:00Z"),
             Str("2020-03-03T23:59:00"), Str("not-a-date")}

\* A person, and a person record without its email key.
Persons == {[name |-> "Ann", email |-> "ann@x.org"], [name |-> "Ann"]}

Reminders == [remindAt : DateStrs]

Notes == [content : {<<"n">>, <<"*", "n">>}]

Comments == [author : Persons, text : {<<"c">>}]

Files == {[filePath |-> "a.txt", fileName |-> "a"]}

\* An optional field: absent, or present when the document may still grow.
Opt(S) == {None} \cup (IF budget >= 1 THEN S ELSE {})

Cost(v) == IF IsNone(v) THEN 0 ELSE 1

\* The fields of a task before any is read.
BlankTask ==
    [title |-> <<>>, starred |-> FALSE, completed |-> FALSE, dueDate |-> None,
     createdBy |-> None, createdAt |-> None, completedBy |-> None,
     completedAt |-> None, reminders |-> <<>>, assignee |-> None,
     notes |-> <<>>, comments |-> <<>>, files |-> <<>>]

Last(s) == s[Len(s)]

Pop(s) == SubSeq(s, 1, Len(s) - 1)

----------------------------------------------------------------------------
(* convert_wunderlist and what it calls, one action per block of code.      *)

Init ==
    /\ pc = "start"
    /\ writer = OrgWriter(StartLevel)
    /\ cm = <<>>
    /\ task = BlankTask
    /\ entry = [level |-> 0, len |-> 0]
    /\ budget = MaxSize
    /\ arg = <<>>
    /\ ret = <<>>

\* Lines 138-145: empty data raises RuntimeError, nothing is converted.
ConvertWunderlist ==
    /\ pc = "start"
    /\ \E empty \in BOOLEAN : pc' = IF empty THEN "raised" ELSE "first"
    /\ UNCHANGED <<writer, cm, task, entry, budget, arg, ret>>

\* Lines 147-163: the next list's heading, then its new_level region is entered.
ConvertWunderlistList ==
    /\ pc \in {"first", "lists"}
    /\ \E title \in Titles, folder \in Opt(Folders) :
          LET extracted == convert_wunderlist_title(title)
              tags == IF Truthy(folder) THEN Append(extracted[2], folder.title)
                      ELSE extracted[2]
              cost == 1 + Len(extracted[2]) + Cost(folder)
              headed == emit_node_title(writer, extracted[1], None, tags)
              target == new_level_target(headed, 0)
          IN  /\ cost <= budget
              /\ budget' = budget - cost
              /\ IF set_level_raises(target)
                 THEN /\ writer' = headed
                      /\ cm' = cm
                      /\ pc' = "raised"
                 ELSE /\ writer' = set_level(headed, target)
                      /\ cm' = Append(cm, <<"new_level", headed.level>>)
                      /\ pc' = "tasks"
    /\ UNCHANGED <<task, entry, arg, ret>>

\* Lines 164 and 50: no task is left, the list's region is left and
\* convert_wunderlist_list returns (its loop variable goes with it).
ListExit ==
    /\ pc = "tasks"
    /\ writer' = new_level_exit(writer, Last(cm)[2], FALSE)
    /\ cm' = Pop(cm)
    /\ task' = BlankTask
    /\ pc' = "lists"
    /\ UNCHANGED <<entry, budget, arg, ret>>

\* Lines 147 and 150: no list is left.
Return ==
    /\ pc = "lists"
    /\ ret' = writer.org_string
    /\ pc' = "done"
    /\ UNCHANGED <<writer, cm, task, entry, budget, arg>>

\* Lines 203-212: the next task's node.
TaskNode ==
    /\ pc = "tasks"
    /\ \E title \in Titles, starred \in BOOLEAN, completed \in BOOLEAN,
          dueDate \in Opt(DateStrs) :
          LET extracted == convert_wunderlist_title(title)
              cost == 1 + Len(extracted[2]) + Cost(dueDate)
          IN  /\ cost <= budget
              /\ budget' = budget - cost
              /\ task' = [BlankTask EXCEPT !.title = title, !.starred = starred,
                             !.completed = completed, !.dueDate = dueDate]
              /\ writer' = emit_node(writer, extracted[1], extracted[2],
                               parse_wunderlist_date(dueDate), Str("deadline"),
                               todo_state_of(starred, completed))
    /\ entry' = [level |-> writer.level, len |-> Len(writer.org_string)]
    /\ pc' = "drawer"
    /\ UNCHANGED <<cm, arg, ret>>

\* Lines 214 and 54.
DrawerEnter ==
    /\ pc = "drawer"
    /\ writer' = drawer_enter(writer, "properties")
    /\ cm' = Append(cm, <<"drawer", "properties">>)
    /\ pc' = "created_by"
    /\ UNCHANGED <<task, entry, budget, arg, ret>>

\* Line 215.
PropCreatedBy ==
    /\ pc = "created_by"
    /\ \E person \in Persons :
          /\ task' = [task EXCEPT !.createdBy = person]
          /\ IF person_raises(person)
             THEN /\ writer' = writer
                  /\ pc' = "raising"
             ELSE /\ writer' = emit_property(writer, "created-by",
                                   convert_wunderlist_person(person))
                  /\ pc' = "created"
    /\ UNCHANGED <<cm, entry, budget, arg, ret>>

\* Lines 217-221.
PropCreated ==
    /\ pc = "created"
    /\ \E createdAt \in Opt(DateStrs) :
          /\ task' = [task EXCEPT !.createdAt = createdAt]
          /\ budget' = budget - Cost(createdAt)
          /\ writer' = IF Truthy(createdAt)
                       THEN emit_timestamp(emit_property(writer, "created", None),
                                parse_wunderlist_date(createdAt), None, FALSE, TRUE)
                       ELSE writer
    /\ pc' = "completed_by"
    /\ UNCHANGED <<cm, entry, arg, ret>>

\* Lines 223-226.
PropCompletedBy ==
    /\ pc = "completed_by"
    /\ \E person \in Opt(Persons) :
          /\ task' = [task EXCEPT !.completedBy = person]
          /\ budget' = budget - Cost(person)
          /\ IF ~Truthy(person)
             THEN /\ writer' = writer
                  /\ pc' = "completed"
             ELSE IF person_raises(person)
             THEN /\ writer' = writer
                  /\ pc' = "raising"
             ELSE /\ writer' = emit_property(writer, "COMPLETED-BY",
                                   convert_wunderlist_person(person))
                  /\ pc' = "completed"
    /\ UNCHANGED <<cm, entry, arg, ret>>

\* Lines 228-232.
PropCompleted ==
    /\ pc = "completed"
    /\ \E completedAt \in Opt(DateStrs) :
          /\ task' = [task EXCEPT !.completedAt = completedAt]
          /\ budget' = budget - Cost(completedAt)
          /\ writer' = IF Truthy(completedAt)
                       THEN emit_timestamp(emit_property(writer, "completed", None),
                                parse_wunderlist_date(completedAt), None, FALSE, TRUE)
                       ELSE writer
    /\ pc' = "reminders"
    /\ UNCHANGED <<cm, entry, arg, ret>>

\* Lines 234-247.
PropReminders ==
    /\ pc = "reminders"
    /\ \E reminders \in SeqsUpTo(Reminders, budget) :
          /\ task' = [task EXCEPT !.reminders = reminders]
          /\ budget' = budget - Len(reminders)
          /\ writer' = IF reminders # <<>>
                       THEN emit(reminders_loop(
                                     emit_property(writer, "reminders", None),
                                     reminders, TRUE),
                                 <<>>, TRUE)
                       ELSE writer
    /\ pc' = "assignee"
    /\ UNCHANGED <<cm, entry, arg, ret>>

\* Lines 249-252.
PropAssignee ==
    /\ pc = "assignee"
    /\ \E person \in Opt(Persons) :
          /\ task' = [task EXCEPT !.assignee = person]
          /\ budget' = budget - Cost(person)
          /\ IF ~Truthy(person)
             THEN /\ writer' = writer
                  /\ pc' = "drawer_exit"
             ELSE IF person_raises(person)
             THEN /\ writer' = writer
                  /\ pc' = "raising"
             ELSE /\ writer' = emit_property(writer, "assignee",
                                   convert_wunderlist_person(person))
                  /\ pc' = "drawer_exit"
    /\ UNCHANGED <<cm, entry, arg, ret>>

\* Line 56: the body of the drawer region completed.
DrawerExit ==
    /\ pc = "drawer_exit"
    /\ writer' = drawer_exit(writer, FALSE)
    /\ cm' = Pop(cm)
    /\ pc' = "notes"
    /\ UNCHANGED <<task, entry, budget, arg, ret>>

\* Lines 254-255.
ConvertNotes ==
    /\ pc = "notes"
    /\ \E notes \in SeqsUpTo(Notes, budget) :
          /\ task' = [task EXCEPT !.notes = notes]
          /\ budget' = budget - Len(notes)
          /\ writer' = notes_loop(writer, notes)
    /\ pc' = "comments"
    /\ UNCHANGED <<cm, entry, arg, ret>>

\* Lines 257-259: with comments, their region is entered and headed.
CommentsEnter ==
    /\ pc = "comments"
    /\ \E comments \in SeqsUpTo(Comments, budget) :
          /\ task' = [task EXCEPT !.comments = comments]
          /\ budget' = budget - Len(comments)
          /\ IF comments = <<>>
             THEN /\ writer' = writer
                  /\ cm' = cm
                  /\ pc' = "files"
             ELSE /\ writer' = emit_node_title(
                                   set_level(writer, new_level_target(writer, 0)),
                                   <<"Comments">>, None, <<>>)
                  /\ cm' = Append(cm, <<"new_level", writer.level>>)
                  /\ pc' = "comments_body"
    /\ UNCHANGED <<entry, arg, ret>>

\* Lines 260-261.
CommentsBody ==
    /\ pc = "comments_body"
    /\ LET looped == comments_loop(writer, task.comments)
       IN  /\ writer' = looped.writer
           /\ pc' = IF looped.exc THEN "raising" ELSE "comments_exit"
    /\ UNCHANGED <<cm, task, entry, budget, arg, ret>>

\* Lines 50 and 263.
CommentsExit ==
    /\ pc = "comments_exit"
    /\ writer' = emit(new_level_exit(writer, Last(cm)[2], FALSE), <<>>, TRUE)
    /\ cm' = Pop(cm)
    /\ pc' = "files"
    /\ UNCHANGED <<task, entry, budget, arg, ret>>

\* Lines 265-267; without files the task is converted.
FilesEnter ==
    /\ pc = "files"
    /\ \E files \in SeqsUpTo(Files, budget) :
          /\ task' = [task EXCEPT !.files = files]
          /\ budget' = budget - Len(files)
          /\ IF files = <<>>
             THEN /\ writer' = writer
                  /\ cm' = cm
                  /\ pc' = "tasks"
             ELSE /\ writer' = emit_node_title(
                                   set_level(writer, new_level_target(writer, 0)),
                                   <<"Files">>, None, <<>>)
                  /\ cm' = Append(cm, <<"new_level", writer.level>>)
                  /\ pc' = "files_body"
    /\ UNCHANGED <<entry, arg, ret>>

\* Lines 268-269.
FilesBody ==
    /\ pc = "files_body"
    /\ writer' = files_loop(writer, task.files)
    /\ pc' = "files_exit"
    /\ UNCHANGED <<cm, task, entry, budget, arg, ret>>

\* Lines 50 and 271; the task is converted.
FilesExit ==
    /\ pc = "files_exit"
    /\ writer' = emit(new_level_exit(writer, Last(cm)[2], FALSE), <<>>, TRUE)
    /\ cm' = Pop(cm)
    /\ pc' = "tasks"
    /\ UNCHANGED <<task, entry, budget, arg, ret>>

\* An exception leaves the innermost region: nothing catches it, so it
\* leaves them all and ends the run.
Unwind ==
    /\ pc = "raising"
    /\ writer' = IF Last(cm)[1] = "new_level"
                 THEN new_level_exit(writer, Last(cm)[2], TRUE)
                 ELSE drawer_exit(writer, TRUE)
    /\ cm' = Pop(cm)
    /\ pc' = IF Len(cm) = 1 THEN "raised" ELSE "raising"
    /\ UNCHANGED <<task, entry, budget, arg, ret>>

Next ==
    \/ ConvertWunderlist
    \/ ConvertWunderlistList
    \/ ListExit
    \/ Return
    \/ TaskNode
    \/ DrawerEnter
    \/ PropCreatedBy
    \/ PropCreated
    \/ PropCompletedBy
    \/ PropCompleted
    \/ PropReminders
    \/ PropAssignee
    \/ DrawerExit
    \/ ConvertNotes
    \/ CommentsEnter
    \/ CommentsBody
    \/ CommentsExit
    \/ FilesEnter
    \/ FilesBody
    \/ FilesExit
    \/ Unwind

Spec == Init /\ [][Next]_vars

----------------------------------------------------------------------------
(* convert_wunderlist_title called on its own, then again on its result.    *)

TitleChars == {"#", "a", " ", NL}

InitTitle ==
    /\ pc = "title"
    /\ arg \in SeqsUpTo(TitleChars, MaxTitleLen)
    /\ ret = <<>>
    /\ writer = OrgWriter(StartLevel)
    /\ cm = <<>>
    /\ task = BlankTask
    /\ entry = [level |-> 0, len |-> 0]
    /\ budget = 0

ExtractTags ==
    /\ pc = "title"
    /\ ret' = convert_wunderlist_title(arg)
    /\ pc' = "title_done"
    /\ UNCHANGED <<writer, cm, task, entry, budget, arg>>

ExtractTagsAgain ==
    /\ pc = "title_done"
    /\ arg' = ret[1]
    /\ ret' = convert_wunderlist_title(ret[1])
    /\ pc' = "title_again"
    /\ UNCHANGED <<writer, cm, task, entry, budget>>

NextTitle == ExtractTags \/ ExtractTagsAgain

SpecTitle == InitTitle /\ [][NextTitle]_vars

----------------------------------------------------------------------------
(* emit_content called on its own, on a fresh writer.                       *)

TextChars == {"*", "a", " "}

InitContent ==
    /\ pc = "content"
    /\ arg \in SeqsUpTo(TextChars, MaxTextLen)
    /\ ret = <<>>
    /\ writer = OrgWriter(StartLevel)
    /\ cm = <<>>
    /\ task = BlankTask
    /\ entry = [level |-> 0, len |-> 0]
    /\ budget = 0

EmitContent ==
    /\ pc = "content"
    /\ writer' = emit_content(writer, arg)
    /\ pc' = "content_done"
    /\ UNCHANGED <<cm, task, entry, budget, arg, ret>>

NextContent == EmitContent

SpecContent == InitContent /\ [][NextContent]_vars

----------------------------------------------------------------------------
(* Properties                                                               *)

Text == writer.org_string

Count(piece) == Cardinality({i \in 1..Len(Text) : Text[i] = piece})

Has(piece) == \E i \in 1..Len(Text) : Text[i] = piece

DrawerOpen == \E i \in 1..Len(cm) : cm[i][1] = "drawer"

\* What the current task has emitted so far.
TaskText == SubSeq(Text, entry.len + 1, Len(Text))

AnnLink == "[[mailto:ann@x.org][Ann]]"

WellFormedPerson(person) == person = [name |-> "Ann", email |-> "ann@x.org"]

\* C1: after a conversion that completes normally the writer's depth is the
\* depth it started with; it is that depth again after each list, and after
\* each task it is the depth the task's conversion began at.
C1_DepthBalanced ==
    /\ pc \in {"first", "lists", "done"} => writer.level = StartLevel
    /\ (pc = "tasks" /\ task # BlankTask) => writer.level = entry.level

C1_Witness ==
    /\ pc = "done"
    /\ Has("Comments")
    /\ Has("Files")
    /\ writer.level = StartLevel

\* C2: whenever a new_level region is left, on normal completion of its body
\* or by an error raised inside it, the depth afterwards is the depth that
\* was current when the region was entered.
C2_DepthRestoredOnEveryExit ==
    [][(Len(cm') < Len(cm) /\ Last(cm)[1] = "new_level")
          => writer'.level = Last(cm)[2]]_vars

\* C3: once no drawer region is open, every ":PROPERTIES:" marker in the
\* buffer has its ":END:" marker, whether the region's body completed or
\* raised.
C3_DrawerClosedOnEveryExit ==
    ~DrawerOpen => Count(":END:") = Count(":PROPERTIES:")

BlockPieces ==
    {":PROPERTIES:", ":END:", ":CREATED-BY: ", ":CREATED: ", ":COMPLETED-BY: ",
     ":COMPLETED: ", ":REMINDERS: ", ":ASSIGNEE: "}

\* C4: the metadata block is line-structured: ":PROPERTIES:", every property
\* label and ":END:" start a line of their own, the two markers are alone on
\* their line, and the block is closed before the task's notes, comments and
\* files; unparseable dates included.
C4_BlockLineStructured ==
    /\ \A i \in 1..Len(Text) :
          /\ Text[i] \in BlockPieces => (i = 1 \/ Text[i - 1] = NL)
          /\ (Text[i] \in {":PROPERTIES:", ":END:"} /\ i < Len(Text))
                => Text[i + 1] = NL
    /\ pc \in {"notes", "comments", "comments_body", "comments_exit", "files",
               "files_body", "files_exit"}
          => Count(":END:") = Count(":PROPERTIES:")

\* The text the claim expects: a leading run of "*" replaced by one "+".
Neutralized(text) ==
    IF text = <<>> \/ text[1] # "*" THEN text
    ELSE LET rest == {i \in 1..Len(text) : \E j \in 1..i : text[j] # "*"}
         IN  <<"+">> \o [k \in 1..Cardinality(rest) |-> text[Len(text) - Cardinality(rest) + k]]

\* C5: emit_content appends the text with its leading run of "*" replaced by
\* a single "+" (a text not starting with "*" unchanged), then a blank line.
C5_ContentSanitized ==
    pc = "content_done" => Text = Neutralized(arg) \o <<NL, NL>>

\* The "#" at i starts a token: no earlier "#" lies in the same
\* whitespace-delimited word.
IsTokenStart(title, i) ==
    /\ title[i] = "#"
    /\ ~\E j \in 1..(i - 1) :
          /\ title[j] = "#"
          /\ \A k \in j..i : title[k] \notin WhiteSpace

\* The characters of title at the indices in keep, in order.
RECURSIVE Restrict(_, _, _)
Restrict(title, keep, i) ==
    IF i > Len(title) THEN <<>>
    ELSE (IF i \in keep THEN <<title[i]>> ELSE <<>>) \o Restrict(title, keep, i + 1)

TokenStarts(title) == {i \in 1..Len(title) : IsTokenStart(title, i)}

\* The indices of the token that starts at i: the "#" and the characters up
\* to the next whitespace, and the whitespace run that follows them.
TokenSpan(title, i) ==
    {j \in i..Len(title) :
        \/ \A k \in i..j : title[k] \notin WhiteSpace
        \/ /\ title[j] \in WhiteSpace
           /\ \A k \in i..j : title[k] \in WhiteSpace
                                 => \A m \in k..j : title[m] \in WhiteSpace}

TokenBody(title, i) ==
    Restrict(title, {j \in (i + 1)..Len(title) :
                        \A k \in i..j : title[k] \notin WhiteSpace}, 1)

RECURSIVE Sorted(_)
Sorted(S) ==
    IF S = {} THEN <<>>
    ELSE LET min == CHOOSE x \in S : \A y \in S : x <= y
         IN  <<min>> \o Sorted(S \ {min})

\* C7: one tag per "#"-token, in order of appearance, each holding every
\* character of its token up to the next whitespace or the end of the title,
\* and no whitespace.
C7_TagsAreTokens ==
    pc = "title_done" =>
        LET starts == Sorted(TokenStarts(arg))
        IN  ret[2] = [k \in 1..Len(starts) |-> TokenBody(arg, starts[k])]

\* C8: extraction run again on a cleaned title yields no tag and returns the
\* title unchanged.
C8_Idempotent ==
    pc = "title_again" => ret = <<arg, <<>>>>

Rendered(reminder, open, close) ==
    LET date == parse_wunderlist_date(reminder.remindAt)
    IN  IF IsNone(date) THEN <<>> ELSE <<open, format_org_date(date), close>>

\* The one property line of a task's reminders, brackets as given: the
\* label, the reminders in source order with a single space between one and
\* the next, the line end.  An unparseable reminder renders as nothing.
RemindersLine(reminders, open, close) ==
    IF reminders = <<>> THEN <<>>
    ELSE <<":REMINDERS: ">>
             \o Join(" ", [i \in 1..Len(reminders) |-> Rendered(reminders[i], open, close)])
             \o <<NL>>

\* C9 as stated: the reminders of a task are emitted as one ":REMINDERS:"
\* line of inactive timestamps [...], and no other step emits that label.
C9_RemindersInactive ==
    [][/\ pc = "reminders"
          => writer'.org_string = Text \o RemindersLine(task'.reminders, "[", "]")
       /\ pc # "reminders"
          => Cardinality({i \in 1..Len(writer'.org_string) :
                             writer'.org_string[i] = ":REMINDERS: "})
               = Count(":REMINDERS: ")]_vars

\* C9, amended: the reminders of a task are emitted as one ":REMINDERS:"
\* line holding the reminders in source order, single spaces between them,
\* each in active style <...> (an unparseable one as nothing); a task without
\* reminders emits no such line, and no other step emits that label.
C9_RemindersActive ==
    [][/\ pc = "reminders"
          => writer'.org_string = Text \o RemindersLine(task'.reminders, "<", ">")
       /\ pc # "reminders"
          => Cardinality({i \in 1..Len(writer'.org_string) :
                             writer'.org_string[i] = ":REMINDERS: "})
               = Count(":REMINDERS: ")]_vars

C9_Witness ==
    /\ pc = "assignee"
    /\ task.reminders = <<[remindAt |-> Str("2020-03-02T08:30:00Z")],
                          [remindAt |-> Str("2020-03-01T10:00:00.000Z")]>>
    /\ SubSeq(Text, Len(Text) - 8, Len(Text))
          = <<":REMINDERS: ", "<", "2020-03-02 Mon 08:30", ">", " ",
              "<", "2020-03-01 Sun 10:00", ">", NL>>

\* A task read so far with a well-formed creator and nothing else.
IsMinimal(t) ==
    /\ WellFormedPerson(t.createdBy)
    /\ IsNone(t.dueDate) /\ IsNone(t.createdAt) /\ IsNone(t.completedBy)
    /\ IsNone(t.completedAt) /\ IsNone(t.assignee)
    /\ t.reminders = <<>> /\ t.notes = <<>> /\ t.comments = <<>> /\ t.files = <<>>

HeadingOf(t) ==
    Stars(entry.level + 1)
        \o <<" ", IF t.starred THEN "NEXT" ELSE IF t.completed THEN "DONE" ELSE "TODO",
             " ">>
        \o (IF t.title = <<"t">> THEN <<"t">> ELSE <<"g", " ", "t", " ", ":", "G", ":">>)
        \o <<NL>>

\* C10: a task with only its creator is converted without error and emits
\* exactly its heading line and a metadata block holding the created-by
\* property: no deadline, no other property, no sub-heading, no blank line.
C10_MinimalTask ==
    /\ IsMinimal(task) => pc \notin {"raising", "raised"}
    /\ (pc = "tasks" /\ IsMinimal(task))
          => TaskText = HeadingOf(task)
                          \o <<":PROPERTIES:", NL, ":CREATED-BY: ", AnnLink, NL,
                               ":END:", NL>>

C10_Witness ==
    /\ pc = "tasks"
    /\ IsMinimal(task)
    /\ task.starred
    /\ entry.len > 0

============================================================================
